---- MODULE Spec2Model ----
(***************************************************************************)
(* The audit-trail subsystem of Ozark Finances: the audit_log table kept   *)
(* by AuditTracker (src/audit_tracker.py), the administrative reset tool   *)
(* (src/reset_audit_logs.py) and the read operations of the tracker.       *)
(*                                                                         *)
(* Python values are pairs <<type, repr>>, so that 0, "0" and None are     *)
(* three different values, str() is a real conversion and truthiness is    *)
(* computed as Python computes it.                                         *)
(***************************************************************************)
EXTENDS Integers, Sequences, FiniteSets, TLC

\* ------------------------------------------------------------------ bounds
MaxLog == 2
MaxTime == 1
MaxUpd == 1
MaxRows == 2
MaxHalfDays == 3
MaxWork == 1
MaxAudited == 1
MaxDays == 3

\* ----------------------------------------------------------- Python values
PyNone == <<"NoneType", "">>
PyStr(s) == <<"str", s>>
PyInt(s) == <<"int", s>>
PyObj(s) == <<"object", s>>
PyBool(b) == <<"bool", IF b THEN "True" ELSE "False">>

\* bool(v): None, 0, False and '' are falsy
Truthy(v) == ~(v[1] = "NoneType" \/ (v[1] = "int" /\ v[2] = "0") \/ (v[1] = "str" /\ v[2] = "")
               \/ (v[1] = "bool" /\ v[2] = "False"))

\* bool is a subclass of int: True and False compare as 1 and 0
Comparable(v) == IF v[1] = "bool" THEN PyInt(IF v[2] = "True" THEN "1" ELSE "0") ELSE v

\* str(v)
Str(v) == IF v[1] = "NoneType" THEN "None" ELSE v[2]

\* a comparison in which None never equals anything, as NULL in SQL
PyNeNullNeverEqual(v1, v2) == v1[1] = "NoneType" \/ v2[1] = "NoneType" \/ Comparable(v1) # Comparable(v2)

\* v1 != v2 on Python values of the types above
PyNe(v1, v2) == Comparable(v1) # Comparable(v2)

\* a dict is a function from its keys to Python values
EmptyDict == [k \in {} |-> PyNone]
DictGet(d, k) == IF k \in DOMAIN d THEN d[k] ELSE PyNone
DictPut(d, k, v) == [x \in (DOMAIN d) \cup {k} |-> IF x = k THEN v ELSE d[x]]

\* an optional snapshot argument: None, a dict, or a row-like object such as
\* sqlite3.Row, which has keys() and key lookup but is not a dict
NoDict == [isNone |-> TRUE, d |-> EmptyDict, row |-> FALSE]
Dict(d) == [isNone |-> FALSE, d |-> d, row |-> FALSE]
RowLike(d) == [isNone |-> FALSE, d |-> d, row |-> TRUE]
\* bool(arg): None, {} and a row of no columns are falsy
TruthyDict(a) == ~a.isNone /\ DOMAIN a.d # {}

\* ------------------------------------------------------------ JSON columns
JsonOfPy(v) ==
    IF v[1] = "NoneType" THEN <<"null", "null">>
    ELSE IF v[1] = "int" THEN <<"number", v[2]>>
    ELSE IF v[1] = "bool" THEN <<"boolean", IF v[2] = "True" THEN "true" ELSE "false">>
    ELSE <<"string", v[2]>>
PyOfJson(j) ==
    IF j[1] = "null" THEN PyNone
    ELSE IF j[1] = "number" THEN PyInt(j[2])
    ELSE IF j[1] = "boolean" THEN PyBool(j[2] = "true")
    ELSE PyStr(j[2])
Serializable(d) == \A k \in DOMAIN d : d[k][1] \in {"NoneType", "int", "bool", "str"}
JsonDumpsDict(d) == [k \in DOMAIN d |-> JsonOfPy(d[k])]
JsonLoadsDict(j) == [k \in DOMAIN j |-> PyOfJson(j[k])]
JsonDumpsChanges(c) == [k \in DOMAIN c |-> [old |-> JsonOfPy(c[k].old), new |-> JsonOfPy(c[k].new)]]
JsonLoadsChanges(j) == [k \in DOMAIN j |-> [old |-> PyOfJson(j[k].old), new |-> PyOfJson(j[k].new)]]

\* a TEXT column holding JSON, or NULL
NullCol == [null |-> TRUE, text |-> EmptyDict]
TextCol(j) == [null |-> FALSE, text |-> j]

\* the reader's side: json.loads(value) if value, else the NULL stays None
DecodeColumn(col) == IF col.null THEN NoDict ELSE Dict(JsonLoadsDict(col.text))

\* ------------------------------------------------------------------- state
VARIABLES audit_log, sqlite_sequence, now, lastCall, assigned, sincePurge, calc

\* the call that came before a page request with a non-zero offset
VARIABLES pageBefore

\* hours by which the local clock is ahead of UTC, in the unit of the clock
VARIABLES utcOffset

\* what the operations of the tracker itself leave alone
\* callers running at the same time: each caller's position in log_action,
\* the holder of the store's write lock, and the position of a get_statistics
\* call with the number of commits that ran into it
VARIABLES writer, lock, stats
conc == <<writer, lock, stats>>

\* the audit_transaction blocks: each block's position, transaction id, the
\* log_action calls the wrapper made, the entries logged by the wrapped work,
\* how the work ended and what reached the caller of the block
VARIABLES txn

\* the application's database: the rows of each business table by primary
\* key, and the last execute_update call with the audit entries it added
VARIABLES business, lastUpdate
app == <<business, lastUpdate>>

\* the last call of a function wrapped by the audit_log decorator: how the
\* function ended, what the wrapper gave back and the entries it added
VARIABLES lastWrapped

\* the last request to one of the invoice bin routes
VARIABLES lastRequest

aux == <<pageBefore, utcOffset, lastRequest, lastWrapped, conc, txn, app>>

vars == <<audit_log, sqlite_sequence, now, lastCall, assigned, sincePurge, calc, aux>>

\* ids of the rows of a table
Ids(tbl) == {tbl[i].id : i \in 1..Len(tbl)}

SetMax(S) == IF S = {} THEN 0 ELSE CHOOSE m \in S : \A x \in S : x <= m

\* ------------------------------------------------------- _calculate_changes
RECURSIVE CalcLoop(_, _, _, _)
CalcLoop(keys, old_dict, new_dict, changes) ==
    IF keys = {} THEN changes
    ELSE LET key == CHOOSE k \in keys : TRUE
             old_val == DictGet(old_dict, key)
             new_val == DictGet(new_dict, key)
         IN CalcLoop(keys \ {key}, old_dict, new_dict,
                     IF PyNe(old_val, new_val)
                     THEN DictPut(changes, key, [old |-> old_val, new |-> new_val])
                     ELSE changes)

\* only the keys of the old snapshot
AllKeysOldOnly(old_dict, new_dict) == DOMAIN old_dict

AllKeys(old_dict, new_dict) == (DOMAIN old_dict) \cup (DOMAIN new_dict)

calculate_changes(old_dict, new_dict) == CalcLoop(AllKeys(old_dict, new_dict), old_dict, new_dict, EmptyDict)

\* --------------------------------------------------------------- log_action
\* a handler that catches only errors of the store
log_action_except_store_only == {"sqlite3.OperationalError"}

\* exception classes caught by "except Exception" at the end of log_action
log_action_except == {"sqlite3.OperationalError", "TypeError"}

\* a rowid that does not advance
NextRowidStuck(tbl, seq) == SetMax(Ids(tbl) \cup {seq})

\* sqlite AUTOINCREMENT: one more than the largest rowid ever used
NextRowid(tbl, seq) == SetMax(Ids(tbl) \cup {seq}) + 1

\* json.dumps(x) if x else None
DumpOrNull(a) == IF TruthyDict(a) THEN TextCol(JsonDumpsDict(a.d)) ELSE NullCol

\* a diff computed for INSERT instead of UPDATE
ChangesOfInsert(action, old_values, new_values) ==
    IF action = "INSERT" /\ TruthyDict(old_values) /\ TruthyDict(new_values)
    THEN calculate_changes(old_values.d, new_values.d)
    ELSE EmptyDict

\* changes = {} unless action is UPDATE and both snapshots are truthy
ChangesOf(action, old_values, new_values) ==
    IF action = "UPDATE" /\ TruthyDict(old_values) /\ TruthyDict(new_values)
    THEN calculate_changes(old_values.d, new_values.d)
    ELSE EmptyDict

\* the exception raised inside the try block, "none" when the write goes through;
\* fault is the failure injected into the store: connect, insert, commit or none
RaisedInLogAction(old_values, new_values, user_info, fault) ==
    IF fault = "connect" THEN "sqlite3.OperationalError"
    ELSE IF \E a \in {user_info, old_values, new_values} : TruthyDict(a) /\ (a.row \/ ~Serializable(a.d)) THEN "TypeError"
    ELSE IF fault \in {"insert", "commit"} THEN "sqlite3.OperationalError"
    ELSE "none"

NewRow(action, table_name, record_id, old_values, new_values, user_info) ==
    LET changes == ChangesOf(action, old_values, new_values)
    IN [id |-> NextRowid(audit_log, sqlite_sequence),
        timestamp |-> now,
        action |-> action,
        table_name |-> table_name,
        record_id |-> Str(record_id),
        user_info |-> DumpOrNull(user_info),
        changes |-> IF DOMAIN changes # {} THEN TextCol(JsonDumpsChanges(changes)) ELSE NullCol,
        old_values |-> DumpOrNull(old_values),
        new_values |-> DumpOrNull(new_values)]

\* the call as far as the store and its caller see it
log_action_body(action, table_name, record_id, old_values, new_values, user_info, fault) ==
    LET exc == RaisedInLogAction(old_values, new_values, user_info, fault)
        row == NewRow(action, table_name, record_id, old_values, new_values, user_info)
        args == [action |-> action, table_name |-> table_name, record_id |-> record_id,
                 old_values |-> old_values, new_values |-> new_values, user_info |-> user_info]
    IN IF exc = "none"
       THEN /\ audit_log' = Append(audit_log, row)
            /\ sqlite_sequence' = row.id
            /\ assigned' = Append(assigned, row.id)
            /\ sincePurge' = [sincePurge EXCEPT !.succ = @ + 1]
            /\ lastCall' = [op |-> "log_action", outcome |-> "returned", args |-> args, result |-> <<row>>]
            /\ UNCHANGED <<now, calc>>
       ELSE \* the with block rolls the transaction back; the handler decides what escapes
            /\ lastCall' = [op |-> "log_action",
                            outcome |-> IF exc \in log_action_except THEN "returned" ELSE "raised",
                            args |-> args, result |-> <<>>]
            /\ UNCHANGED <<audit_log, sqlite_sequence, assigned, sincePurge, now, calc>>

log_action(action, table_name, record_id, old_values, new_values, user_info, fault) ==
    /\ log_action_body(action, table_name, record_id, old_values, new_values, user_info, fault)
    /\ UNCHANGED aux

\* the wall clock read by datetime.now() advances
Advance(max) ==
    /\ now < max
    /\ now' = now + 1
    /\ UNCHANGED <<audit_log, sqlite_sequence, lastCall, assigned, sincePurge, calc, aux>>

Tick == Advance(MaxTime)

\* ------------------------------------------------------ init_audit_database
\* a table dropped and created again
drop_and_create_table(tbl) == <<>>

\* CREATE TABLE IF NOT EXISTS on a table that exists
create_table_if_not_exists(tbl) == tbl

init_audit_database ==
    /\ audit_log' = create_table_if_not_exists(audit_log)
    /\ lastCall' = [op |-> "init_audit_database", outcome |-> "returned", args |-> <<>>, result |-> <<>>]
    /\ UNCHANGED <<sqlite_sequence, now, assigned, sincePurge, calc, aux>>

\* --------------------------------------------------------- reset_audit_logs
\* a VACUUM that runs, as it would after a commit
vacuum_after_commit == FALSE

\* DELETE opens an implicit transaction in the sqlite3 module, and sqlite
\* refuses VACUUM inside a transaction ("cannot VACUUM from within a
\* transaction"): the statement raises sqlite3.OperationalError
vacuum_in_transaction_raises == TRUE

reset_audit_logs(exists, confirm, response) ==
    LET current_count == Len(audit_log)
        args == [exists |-> exists, confirm |-> confirm, response |-> response]
        ret(b) == [op |-> "reset_audit_logs", outcome |-> "returned", args |-> args, result |-> <<b>>]
    IN IF ~exists THEN
            /\ lastCall' = ret(FALSE)
            /\ UNCHANGED <<audit_log, sqlite_sequence, now, assigned, sincePurge, calc, aux>>
       ELSE IF current_count = 0 THEN
            /\ lastCall' = ret(TRUE)
            /\ UNCHANGED <<audit_log, sqlite_sequence, now, assigned, sincePurge, calc, aux>>
       ELSE IF confirm /\ response = "no" THEN
            /\ lastCall' = ret(FALSE)
            /\ UNCHANGED <<audit_log, sqlite_sequence, now, assigned, sincePurge, calc, aux>>
       ELSE IF vacuum_in_transaction_raises THEN
            \* both DELETEs are rolled back when the with block exits on the error
            /\ lastCall' = ret(FALSE)
            /\ sincePurge' = [base |-> Len(audit_log), succ |-> 0]
            /\ UNCHANGED <<audit_log, sqlite_sequence, now, assigned, calc, aux>>
       ELSE
            /\ audit_log' = <<>>
            /\ sqlite_sequence' = 0
            /\ sincePurge' = [base |-> 0, succ |-> 0]
            /\ lastCall' = ret(TRUE)
            /\ UNCHANGED <<now, assigned, calc, aux>>

\* ----------------------------------------------------------- get_audit_logs
\* an optional date bound: None or a timestamp string
NoDate == [isNone |-> TRUE, t |-> 0]
Date(t) == [isNone |-> FALSE, t |-> t]

\* the WHERE clause built from the arguments that are truthy
Where(row, table_name, action, record_id, date_from, date_to) ==
    /\ Truthy(table_name) => row.table_name = table_name[2]
    /\ Truthy(action) => row.action = action[2]
    /\ Truthy(record_id) => row.record_id = Str(record_id)
    /\ ~date_from.isNone => row.timestamp >= date_from.t
    /\ ~date_to.isNone => row.timestamp <= date_to.t

\* the orders in which the rows at the given positions can come back
Orderings(S) == {p \in [1..Cardinality(S) -> S] : \A i, j \in 1..Cardinality(S) : i # j => p[i] # p[j]}

\* the binary collation of the action column
ActionOrder == <<"DELETE", "INSERT", "TRANSACTION_COMPLETE", "TRANSACTION_ERROR", "TRANSACTION_START", "UPDATE">>
ActionRank(a) == CHOOSE i \in 1..Len(ActionOrder) : ActionOrder[i] = a

\* The query has no second sort key, so rows with equal timestamp keep the
\* order in which the plan visits them (sqlite 3.40, indexes of
\* init_audit_database): a record_id filter searches idx_audit_record_id and
\* sorts, which leaves ties by ascending id; a table_name filter searches
\* idx_audit_table_action and sorts, which leaves ties by action, then
\* ascending id; any other query scans idx_audit_timestamp backwards, which
\* gives ties by descending id.
TieBefore(r1, r2, table_name, record_id) ==
    IF Truthy(record_id) THEN r1.id < r2.id
    ELSE IF Truthy(table_name)
         THEN ActionRank(r1.action) < ActionRank(r2.action) \/ (r1.action = r2.action /\ r1.id < r2.id)
         ELSE r1.id > r2.id

\* ORDER BY timestamp DESC
OrderByTimestampDesc(tbl, S, table_name, record_id) ==
    {p \in Orderings(S) : \A i, j \in 1..Cardinality(S) : i < j =>
        \/ tbl[p[i]].timestamp > tbl[p[j]].timestamp
        \/ tbl[p[i]].timestamp = tbl[p[j]].timestamp /\ TieBefore(tbl[p[i]], tbl[p[j]], table_name, record_id)}

Min(a, b) == IF a < b THEN a ELSE b

\* an offset that is one row short
LimitOffsetFromOffset(s, limit, offset) == SubSeq(s, IF offset = 0 THEN 1 ELSE offset, Min(Len(s), offset + limit))

\* LIMIT ? OFFSET ?
LimitOffset(s, limit, offset) == SubSeq(s, offset + 1, Min(Len(s), offset + limit))

\* the row sequences the query can return
QueryResults(tbl, table_name, action, record_id, date_from, date_to, limit, offset) ==
    LET S == {i \in 1..Len(tbl) : Where(tbl[i], table_name, action, record_id, date_from, date_to)}
    IN {LimitOffset([i \in 1..Cardinality(S) |-> tbl[p[i]]], limit, offset) : p \in OrderByTimestampDesc(tbl, S, table_name, record_id)}

get_audit_logs(table_name, action, record_id, date_from, date_to, limit, offset) ==
    /\ \E rows \in QueryResults(audit_log, table_name, action, record_id, date_from, date_to, limit, offset) :
          lastCall' = [op |-> "get_audit_logs", outcome |-> "returned",
                       args |-> [table_name |-> table_name, action |-> action, record_id |-> record_id,
                                 date_from |-> date_from, date_to |-> date_to, limit |-> limit, offset |-> offset],
                       result |-> rows]
    /\ pageBefore' = IF offset > 0 THEN lastCall ELSE pageBefore
    /\ UNCHANGED <<audit_log, sqlite_sequence, now, assigned, sincePurge, calc, utcOffset, lastRequest, lastWrapped, app, conc, txn>>

\* limit of get_record_history
HistoryLimit == 1000

get_record_history(table_name, record_id) ==
    /\ \E rows \in QueryResults(audit_log, table_name, PyNone, record_id, NoDate, NoDate, HistoryLimit, 0) :
          lastCall' = [op |-> "get_record_history", outcome |-> "returned",
                       args |-> [table_name |-> table_name, record_id |-> record_id],
                       result |-> rows]
    /\ UNCHANGED <<audit_log, sqlite_sequence, now, assigned, sincePurge, calc, aux>>

\* ----------------------------------------------------------- get_statistics
\* COUNT(*) ... GROUP BY action and GROUP BY table_name
CountAction(tbl, a) == Cardinality({i \in 1..Len(tbl) : tbl[i].action = a})

\* a count of the actions seen on a table instead of its rows
CountTableActions(tbl, t) == Cardinality({tbl[i].action : i \in {j \in 1..Len(tbl) : tbl[j].table_name = t}})

CountTable(tbl, t) == Cardinality({i \in 1..Len(tbl) : tbl[i].table_name = t})

\* a total that counts the records instead of the rows
CountDistinctRecords(tbl) == Cardinality({tbl[i].record_id : i \in 1..Len(tbl)})

\* COUNT(*)
CountAll(tbl) == Len(tbl)

\* the four queries, each over the store as it is when the query runs
OverallStats(tbl) ==
    [total_actions |-> CountAll(tbl),
     tables_tracked |-> Cardinality({tbl[i].table_name : i \in 1..Len(tbl)}),
     records_affected |-> Cardinality({tbl[i].record_id : i \in 1..Len(tbl)})]

ActionStats(tbl) == [a \in {tbl[i].action : i \in 1..Len(tbl)} |-> CountAction(tbl, a)]

TableStats(tbl) == [t \in {tbl[i].table_name : i \in 1..Len(tbl)} |-> CountTable(tbl, t)]

\* '-1 day' in units of the clock, which counts half days where the age of
\* entries matters
Day == 2

\* datetime('now') is UTC; the timestamp column holds datetime.now(), local
\* time, and utcOffset is local time minus UTC
StoreNow == now - utcOffset

\* WHERE timestamp >= datetime('now', '-1 day')
RecentActivity(tbl, store_now) == [count |-> Cardinality({i \in 1..Len(tbl) : tbl[i].timestamp >= store_now - Day})]

\* ------------------------------------------------ audit viewer: view_logs
\* The date filters of the page are date-only texts. get_audit_logs compares
\* them with the timestamp column as text: the date is a proper prefix of
\* every timestamp of its day, so it sorts before all of them and after
\* every timestamp of the days before.
DateText(day) == [isNone |-> FALSE, t |-> day]
AsTimestampBound(date, upper) ==
    IF date.isNone THEN NoDate
    ELSE Date(IF upper THEN date.t * Day - 1 ELSE date.t * Day)

\* the WHERE clause of the count query: DATE(timestamp) >= ? and
\* DATE(timestamp) <= ? for the dates
CountWhere(row, table_name, action, record_id, date_from, date_to) ==
    /\ Where(row, table_name, action, record_id, NoDate, NoDate)
    /\ ~date_from.isNone => row.timestamp \div Day >= date_from.t
    /\ ~date_to.isNone => row.timestamp \div Day <= date_to.t

view_logs(table_name, action, record_id, date_from, date_to, page, per_page) ==
    LET offset == (page - 1) * per_page
        total_count == Cardinality({i \in 1..Len(audit_log) :
                           CountWhere(audit_log[i], table_name, action, record_id, date_from, date_to)})
        pages == (total_count + per_page - 1) \div per_page
        total_pages == IF pages < 1 THEN 1 ELSE pages
    IN /\ \E logs \in QueryResults(audit_log, table_name, action, record_id,
                                    AsTimestampBound(date_from, FALSE), AsTimestampBound(date_to, TRUE),
                                    per_page, offset) :
             lastCall' = [op |-> "view_logs", outcome |-> "returned",
                          args |-> [table_name |-> table_name, action |-> action, record_id |-> record_id,
                                    date_from |-> date_from, date_to |-> date_to, page |-> page, per_page |-> per_page],
                          result |-> [logs |-> logs,
                                      pagination |-> [page |-> page, per_page |-> per_page,
                                                      total_count |-> total_count, total_pages |-> total_pages,
                                                      has_prev |-> page > 1, has_next |-> page < total_pages]]]
       /\ UNCHANGED <<audit_log, sqlite_sequence, now, assigned, sincePurge, calc, aux>>

\* a call that no write of another caller runs into
get_statistics ==
    /\ lastCall' = [op |-> "get_statistics", outcome |-> "returned", args |-> [now |-> now],
                    result |-> [overall |-> OverallStats(audit_log),
                                actions |-> ActionStats(audit_log),
                                tables |-> TableStats(audit_log),
                                recent_activity |-> RecentActivity(audit_log, StoreNow)]]
    /\ UNCHANGED <<audit_log, sqlite_sequence, now, assigned, sincePurge, calc, aux>>

\* ------------------------------------------------- callers at the same time
Callers == {"w1", "w2"}
WriterIdle == [pc |-> "idle", args |-> <<>>, row |-> <<>>, wrote |-> <<>>, timedOut |-> FALSE]
StatsIdle == [pc |-> "idle", overall |-> <<>>, actions |-> <<>>, tables |-> <<>>, commits |-> 0, last |-> 0]

\* a store without a write lock
LockIgnored(l) == TRUE

\* sqlite gives the write lock to one connection at a time
LockFree(l) == l = "none"

\* timestamp and changes are computed before the connection is opened
log_action_begin(w, action, table_name, record_id, old_values, new_values, user_info) ==
    /\ writer[w].pc = "idle"
    /\ writer' = [writer EXCEPT ![w].pc = "called",
                                ![w].args = [action |-> action, table_name |-> table_name, record_id |-> record_id,
                                             old_values |-> old_values, new_values |-> new_values, user_info |-> user_info],
                                ![w].row = [NewRow(action, table_name, record_id, old_values, new_values, user_info)
                                              EXCEPT !.id = 0]]
    /\ UNCHANGED <<audit_log, sqlite_sequence, now, lastCall, assigned, sincePurge, calc, pageBefore, utcOffset, lastRequest, lastWrapped, app, txn, lock, stats>>

\* the INSERT takes the write lock; the row is pending until the commit
log_action_insert(w) ==
    /\ writer[w].pc = "called"
    /\ LockFree(lock)
    /\ lock' = w
    /\ writer' = [writer EXCEPT ![w].pc = "inserted", ![w].row.id = NextRowid(audit_log, sqlite_sequence)]
    /\ UNCHANGED <<audit_log, sqlite_sequence, now, lastCall, assigned, sincePurge, calc, pageBefore, utcOffset, lastRequest, lastWrapped, app, txn, stats>>

\* the lock stays taken for the connection's timeout: "database is locked"
log_action_locked(w) ==
    /\ writer[w].pc = "called"
    /\ ~LockFree(lock)
    /\ writer' = [writer EXCEPT ![w].pc = "idle", ![w].timedOut = TRUE]
    /\ lastCall' = [op |-> "log_action",
                    outcome |-> IF "sqlite3.OperationalError" \in log_action_except THEN "returned" ELSE "raised",
                    args |-> writer[w].args, result |-> <<>>]
    /\ UNCHANGED <<audit_log, sqlite_sequence, now, assigned, sincePurge, calc, pageBefore, utcOffset, lastRequest, lastWrapped, app, txn, lock, stats>>

log_action_commit(w) ==
    /\ writer[w].pc = "inserted"
    /\ audit_log' = Append(audit_log, writer[w].row)
    /\ sqlite_sequence' = writer[w].row.id
    /\ assigned' = Append(assigned, writer[w].row.id)
    /\ sincePurge' = [sincePurge EXCEPT !.succ = @ + 1]
    /\ lock' = "none"
    /\ writer' = [writer EXCEPT ![w].pc = "idle", ![w].wrote = Append(@, writer[w].row)]
    /\ stats' = IF stats.pc = "idle" THEN stats ELSE [stats EXCEPT !.commits = @ + 1]
    /\ lastCall' = [op |-> "log_action", outcome |-> "returned", args |-> writer[w].args, result |-> <<writer[w].row>>]
    /\ UNCHANGED <<now, calc, pageBefore, utcOffset, lastRequest, lastWrapped, app, txn>>

\* get_statistics query by query: each SELECT reads the store as committed
\* when it runs, and nothing holds the store between two of them
get_statistics_overall ==
    /\ stats.pc = "idle"
    /\ stats' = [stats EXCEPT !.pc = "overall", !.overall = OverallStats(audit_log), !.commits = 0]
    /\ UNCHANGED <<audit_log, sqlite_sequence, now, lastCall, assigned, sincePurge, calc, pageBefore, utcOffset, lastRequest, lastWrapped, app, txn, writer, lock>>

get_statistics_actions ==
    /\ stats.pc = "overall"
    /\ stats' = [stats EXCEPT !.pc = "actions", !.actions = ActionStats(audit_log)]
    /\ UNCHANGED <<audit_log, sqlite_sequence, now, lastCall, assigned, sincePurge, calc, pageBefore, utcOffset, lastRequest, lastWrapped, app, txn, writer, lock>>

get_statistics_tables ==
    /\ stats.pc = "actions"
    /\ stats' = [stats EXCEPT !.pc = "tables", !.tables = TableStats(audit_log)]
    /\ UNCHANGED <<audit_log, sqlite_sequence, now, lastCall, assigned, sincePurge, calc, pageBefore, utcOffset, lastRequest, lastWrapped, app, txn, writer, lock>>

get_statistics_recent ==
    /\ stats.pc = "tables"
    /\ lastCall' = [op |-> "get_statistics", outcome |-> "returned", args |-> [now |-> now],
                    result |-> [overall |-> stats.overall, actions |-> stats.actions, tables |-> stats.tables,
                                recent_activity |-> RecentActivity(audit_log, StoreNow)]]
    /\ stats' = [StatsIdle EXCEPT !.last = stats.commits]
    /\ UNCHANGED <<audit_log, sqlite_sequence, now, assigned, sincePurge, calc, pageBefore, utcOffset, lastRequest, lastWrapped, app, txn, writer, lock>>

\* ------------------------------------------------------ audit_log decorator
NotWrapped == [op |-> "none", args |-> <<>>, returned |-> FALSE, raised |-> "none", entries |-> <<>>]

\* the record id the wrapper logs: get_record_id(*args, **kwargs), else
\* args[0], else None; in the handler 'unknown' when the function raised
\* before the local was assigned
WrappedRecordId(func, source) ==
    IF func = "Exception" THEN PyStr("unknown")
    ELSE IF source = "get_record_id raises" THEN PyNone
    ELSE IF source = "none" THEN PyNone
    ELSE PyInt("5")

\* what leaves the wrapper: the function's exception, or the exception of
\* get_record_id, which is called inside the same try block
WrapperRaises(func, source) ==
    IF func = "Exception" THEN "func"
    ELSE IF source = "get_record_id raises" THEN "get_record_id"
    ELSE "none"

wrapper(action, table_name, func, source) ==
    LET raised == WrapperRaises(func, source)
        failed == func = "Exception" \/ source = "get_record_id raises"
    IN /\ log_action_body(IF failed THEN action \o "_ERROR" ELSE action, table_name,
                          WrappedRecordId(func, source), NoDict, NoDict,
                          Dict([k \in IF failed THEN {"function", "error"} ELSE {"function"} |-> PyStr("...")]),
                          "none")
       /\ lastWrapped' = [op |-> "wrapper",
                          args |-> [action |-> action, table_name |-> table_name, func |-> func, source |-> source],
                          returned |-> raised = "none",
                          raised |-> raised,
                          entries |-> SubSeq(audit_log', Len(audit_log) + 1, Len(audit_log'))]
       /\ UNCHANGED <<pageBefore, utcOffset, lastRequest, conc, txn, app>>

\* --------------------------------------------------------- audit_transaction
Blocks == {"b1", "b2"}
TxnIdle == [pc |-> "idle", id |-> PyNone, calls |-> <<>>, failed |-> FALSE, work |-> <<>>,
            exit |-> "none", raised |-> "none"]

\* f"TXN_{start_time.strftime('%Y%m%d_%H%M%S_%f')}": the clock reading and
\* nothing else
TransactionId(start_time) == PyStr("TXN_" \o ToString(start_time))

\* the keys of the user_info maps the wrapper builds
TxnInfo(keys) == Dict([k \in keys |-> PyStr("...")])

\* what log_action did with the wrapper's entry
Logged(b, action) ==
    [txn EXCEPT ![b].calls = Append(@, action),
                ![b].failed = @ \/ lastCall'.result = <<>>]

\* entering the block: the id is made, TRANSACTION_START is logged, the
\* wrapped work begins
audit_transaction_enter(b, fault) ==
    /\ txn[b].pc = "idle"
    /\ log_action_body("TRANSACTION_START", "SYSTEM", TransactionId(now), NoDict, NoDict,
                       TxnInfo({"description", "user_info", "start_time"}), fault)
    /\ txn' = [Logged(b, "TRANSACTION_START") EXCEPT ![b].pc = "body", ![b].id = TransactionId(now)]
    /\ UNCHANGED <<pageBefore, utcOffset, lastRequest, lastWrapped, app, conc>>

\* the wrapped work logs an entry of its own
audit_transaction_work(b, action, table_name, record_id, old_values, new_values) ==
    /\ txn[b].pc = "body"
    /\ log_action_body(action, table_name, record_id, old_values, new_values, NoDict, "none")
    /\ txn' = [txn EXCEPT ![b].work = Append(@, lastCall'.result[1].id)]
    /\ UNCHANGED <<pageBefore, utcOffset, lastRequest, lastWrapped, app, conc>>

\* the work returns: TRANSACTION_COMPLETE is logged and the block ends
audit_transaction_complete(b, fault) ==
    /\ txn[b].pc = "body"
    /\ log_action_body("TRANSACTION_COMPLETE", "SYSTEM", txn[b].id, NoDict, NoDict,
                       TxnInfo({"description", "duration_seconds", "end_time"}), fault)
    /\ txn' = [Logged(b, "TRANSACTION_COMPLETE") EXCEPT ![b].pc = "exited", ![b].exit = "normal"]
    /\ UNCHANGED <<pageBefore, utcOffset, lastRequest, lastWrapped, app, conc>>

\* the work raises an Exception: the handler logs TRANSACTION_ERROR
audit_transaction_except(b, fault) ==
    /\ txn[b].pc = "body"
    /\ log_action_body("TRANSACTION_ERROR", "SYSTEM", txn[b].id, NoDict, NoDict,
                       TxnInfo({"description", "error", "duration_seconds", "end_time"}), fault)
    /\ txn' = [Logged(b, "TRANSACTION_ERROR") EXCEPT ![b].pc = "handler", ![b].exit = "Exception"]
    /\ UNCHANGED <<pageBefore, utcOffset, lastRequest, lastWrapped, app, conc>>

\* a handler that ends without raising
Swallowed(exc) == "none"

\* raise
Reraised(exc) == exc

audit_transaction_raise(b) ==
    /\ txn[b].pc = "handler"
    /\ txn' = [txn EXCEPT ![b].pc = "exited", ![b].raised = Reraised(txn[b].exit)]
    /\ UNCHANGED <<audit_log, sqlite_sequence, now, lastCall, assigned, sincePurge, calc, pageBefore, utcOffset, lastRequest, lastWrapped, app, conc>>

\* ------------------------------------------- DatabaseManager.execute_update
\* a row before and after an UPDATE
RowOld == [k \in {"a"} |-> PyStr("x")]
RowNew == [k \in {"a"} |-> PyStr("y")]
Tables == {"Invoices", "Withdraw", "DebtRegister"}
RowKeys == {1, 2}

\* the column that holds a table's key (Withdraw has no key column, its rows
\* are addressed by rowid), and the column execute_update takes for it:
\* pk_map.get(table_name, 'id'), a lookup by the exact name
KeyColumn(t) ==
    IF t = "Invoices" THEN "InvoiceID"
    ELSE IF t = "DebtRegister" THEN "DebtName"
    ELSE "rowid"
get_primary_key_column(name) == IF name = "Invoices" THEN "InvoiceID" ELSE "id"

\* _extract_table_name works on the upper-cased query; sqlite resolves table
\* names without regard to case
Upper(t) ==
    IF t = "Invoices" THEN "INVOICES"
    ELSE IF t = "DebtRegister" THEN "DEBTREGISTER"
    ELSE "WITHDRAW"
extract_table_name(stmt) == Upper(stmt.table)
TableNamed(name) == CHOOSE t \in Tables : name \in {t, Upper(t)}

\* an integer key as a Python value
KeyRepr == <<"1", "2">>
Key(k) == PyInt(KeyRepr[k])
KeyOf(v) == IF \E k \in RowKeys : Str(v) = KeyRepr[k] THEN CHOOSE k \in RowKeys : Str(v) = KeyRepr[k] ELSE 0

\* SELECT * FROM {table_name} WHERE {pk_column} = ?, then dict(row): None when
\* no row matches, and None as well when the statement fails on a column
\* the table does not have (the handler logs a warning)
FetchRow(biz, name, record_id) ==
    LET t == TableNamed(name)
    IN IF get_primary_key_column(name) # KeyColumn(t) THEN NoDict
       ELSE IF KeyOf(record_id) \in DOMAIN biz[t] THEN Dict(biz[t][KeyOf(record_id)])
       ELSE NoDict

\* an invoice row: status is 'active' or 'binned', deleted_at is NULL or the
\* text of the time the invoice went to the bin
InvoiceRow(status, deleted_at) == [k \in {"status", "deleted_at"} |-> IF k = "status" THEN PyStr(status) ELSE deleted_at]

\* strftime('%Y-%m-%d %H:%M:%S'): a text of fixed width, so that texts
\* compare as the times they stand for
Strftime(t) == PyStr(ToString(t))
Strptime(v) == CHOOSE t \in -MaxDays..MaxDays : Strftime(t) = v

\* a status test that every row passes
AnyStatus(row) == TRUE

\* status = 'binned'
Binned(row) == row["status"] = PyStr("binned")

\* deleted_at < ?: never true of a NULL
DeletedBefore(row, cutoff) ==
    /\ row["deleted_at"] # PyNone
    /\ Strptime(row["deleted_at"]) < Strptime(cutoff)

\* the rows a statement touches: the row of the key given last in params,
\* the rows the other WHERE clauses select, or every row
Touched(biz, stmt, params) ==
    LET rows == biz[stmt.table]
    IN IF stmt.where = "key" THEN DOMAIN rows \cap {KeyOf(params[Len(params)])}
       ELSE IF stmt.where = "key and binned"
       THEN {k \in DOMAIN rows \cap {KeyOf(params[Len(params)])} : Binned(rows[k])}
       ELSE IF stmt.where = "keys and binned"
       THEN {k \in DOMAIN rows : (\E i \in 1..Len(params) : KeyOf(params[i]) = k) /\ Binned(rows[k])}
       ELSE IF stmt.where = "binned before"
       THEN {k \in DOMAIN rows : Binned(rows[k]) /\ DeletedBefore(rows[k], params[1])}
       ELSE DOMAIN rows

\* the row an UPDATE leaves: SET status = 'binned', deleted_at = ?, SET
\* status = 'active', deleted_at = NULL, or the columns of the other UPDATEs
SetClause(stmt, params, row) ==
    IF stmt.set = "binned" THEN InvoiceRow("binned", params[1])
    ELSE IF stmt.set = "active" THEN InvoiceRow("active", PyNone)
    ELSE RowNew

NewKey(biz, t) == SetMax(DOMAIN biz[t] \cup {0}) + 1

\* cursor.execute(query, params) and conn.commit()
Execute(biz, stmt, params) ==
    LET rows == biz[stmt.table]
        hit == Touched(biz, stmt, params)
    IN IF stmt.verb = "INSERT"
       THEN [biz EXCEPT ![stmt.table] = [k \in DOMAIN rows \cup {NewKey(biz, stmt.table)} |->
                                             IF k \in DOMAIN rows THEN rows[k] ELSE RowOld]]
       ELSE IF stmt.verb = "UPDATE"
       THEN [biz EXCEPT ![stmt.table] = [k \in DOMAIN rows |-> IF k \in hit THEN SetClause(stmt, params, rows[k]) ELSE rows[k]]]
       ELSE [biz EXCEPT ![stmt.table] = [k \in DOMAIN rows \ hit |-> rows[k]]]

Rowcount(biz, stmt, params) == IF stmt.verb = "INSERT" THEN 1 ELSE Cardinality(Touched(biz, stmt, params))

\* cursor.lastrowid: the rowid of the row an INSERT added, None otherwise
Lastrowid(biz, stmt) == IF stmt.verb = "INSERT" THEN PyInt(KeyRepr[NewKey(biz, stmt.table)]) ELSE PyNone

\* the record id the audit entry is written for
AuditRecordId(biz, stmt, params, record_id) ==
    IF ~Truthy(record_id) /\ stmt.verb = "INSERT"
    THEN IF params # <<>> /\ Truthy(Lastrowid(biz, stmt)) THEN Lastrowid(biz, stmt)
         ELSE IF params # <<>> THEN params[1]
         ELSE record_id
    ELSE record_id

UpdateInfo == Dict([k \in {"operation", "query_type"} |-> PyStr("...")])

\* cursor.execute or conn.commit raises: the with block rolls back and the
\* exception leaves execute_update
StatementRaises(fault) == fault = "execute"

\* an audit block placed before the statement is executed
AuditBlockBeforeExecute(fault) == TRUE

\* the audit block comes after conn.commit() and is not reached when the
\* statement raised
AuditBlockReached(fault) == ~StatementRaises(fault)

execute_update_body(stmt, params, table_name, record_id, fault) ==
    LET old_values == IF stmt.verb = "UPDATE" /\ Truthy(table_name) /\ Truthy(record_id)
                      THEN FetchRow(business, table_name[2], record_id)
                      ELSE NoDict
        committed == IF StatementRaises(fault) THEN business ELSE Execute(business, stmt, params)
        action == stmt.verb
        name == IF Truthy(table_name) THEN table_name[2] ELSE extract_table_name(stmt)
        rid == AuditRecordId(business, stmt, params, record_id)
        new_values == IF action \in {"INSERT", "UPDATE"} /\ Truthy(rid)
                      THEN FetchRow(committed, name, rid)
                      ELSE NoDict
    IN /\ business' = committed
       /\ IF AuditBlockReached(fault) /\ Truthy(rid)
          THEN log_action_body(action, name, rid, old_values, new_values, UpdateInfo, fault)
          ELSE UNCHANGED <<audit_log, sqlite_sequence, now, lastCall, assigned, sincePurge, calc>>
       /\ lastUpdate' = [op |-> "execute_update",
                         outcome |-> IF StatementRaises(fault) THEN "raised" ELSE "returned",
                         args |-> [stmt |-> stmt, params |-> params, table_name |-> table_name,
                                   record_id |-> record_id, fault |-> fault],
                         rowcount |-> IF StatementRaises(fault) THEN 0 ELSE Rowcount(business, stmt, params),
                         entries |-> SubSeq(audit_log', Len(audit_log) + 1, Len(audit_log'))]

execute_update(stmt, params, table_name, record_id, fault) ==
    /\ execute_update_body(stmt, params, table_name, record_id, fault)
    /\ UNCHANGED <<pageBefore, utcOffset, lastRequest, lastWrapped, conc, txn>>

\* -------------------------------------------------------- the invoice bin
NoRequest == [op |-> "none", args |-> <<>>]

\* timedelta(days=30), in days of the clock
RetentionDays == 2

\* str.lower() of the confirmation texts
Lower(text) == IF text = "DELETE" THEN "delete" ELSE text

BinStatement(verb, where, set) == [verb |-> verb, table |-> "Invoices", where |-> where, set |-> set]

BinFrame == UNCHANGED <<pageBefore, utcOffset, lastWrapped, conc, txn>>

\* a request that ends without a statement
NoStatement == UNCHANGED <<audit_log, sqlite_sequence, now, lastCall, assigned, sincePurge, calc, app>>

move_invoice_to_bin(invoice_id) ==
    /\ execute_update_body(BinStatement("UPDATE", "key", "binned"), <<Strftime(now), invoice_id>>,
                           PyStr("Invoices"), invoice_id, "none")
    /\ lastRequest' = [op |-> "move_invoice_to_bin", args |-> [invoice_id |-> invoice_id]]
    /\ BinFrame

restore_invoice_from_bin(invoice_id) ==
    /\ execute_update_body(BinStatement("UPDATE", "key", "active"), <<invoice_id>>,
                           PyStr("Invoices"), invoice_id, "none")
    /\ lastRequest' = [op |-> "restore_invoice_from_bin", args |-> [invoice_id |-> invoice_id]]
    /\ BinFrame

permanent_delete_invoice(invoice_id) ==
    LET stmt == BinStatement("DELETE", "key and binned", "row")
        invoice == Touched(business, stmt, <<invoice_id>>)
    IN /\ IF invoice = {} THEN NoStatement
          ELSE execute_update_body(stmt, <<invoice_id>>, PyStr("Invoices"), invoice_id, "none")
       /\ lastRequest' = [op |-> "permanent_delete_invoice", args |-> [invoice_id |-> invoice_id]]
       /\ BinFrame

auto_cleanup_bin ==
    LET cutoff_date == Strftime(now - RetentionDays)
        stmt == BinStatement("DELETE", "binned before", "row")
        invoices_to_delete == Touched(business, stmt, <<cutoff_date>>)
    IN /\ IF invoices_to_delete = {} THEN NoStatement
          ELSE execute_update_body(stmt, <<cutoff_date>>, PyNone, PyNone, "none")
       /\ lastRequest' = [op |-> "auto_cleanup_bin", args |-> [now |-> now]]
       /\ BinFrame

bulk_delete_invoices(invoice_ids, confirmation) ==
    /\ IF Lower(confirmation) # "delete" \/ invoice_ids = <<>> THEN NoStatement
       ELSE execute_update_body(BinStatement("DELETE", "keys and binned", "row"), invoice_ids, PyNone, PyNone, "none")
    /\ lastRequest' = [op |-> "bulk_delete_invoices",
                       args |-> [invoice_ids |-> invoice_ids, confirmation |-> confirmation]]
    /\ BinFrame

\* ------------------------------------------------------- the diff in isolation
CalcIdle == [old |-> EmptyDict, new |-> EmptyDict, changes |-> EmptyDict, done |-> FALSE]

CalcChanges ==
    /\ ~calc.done
    /\ calc' = [calc EXCEPT !.changes = calculate_changes(calc.old, calc.new), !.done = TRUE]
    /\ UNCHANGED <<audit_log, sqlite_sequence, now, lastCall, assigned, sincePurge, aux>>

\* ------------------------------------------------------------------ inputs
Keys == {"a", "b"}
DictsOver(V) == UNION {[K -> V] : K \in SUBSET Keys}

\* snapshots for the diff alone
DiffValues == {PyNone, PyStr("x"), PyStr("y")}
DiffDicts == DictsOver(DiffValues)

\* snapshots passed to log_action when the stored changes are examined
UpdValues == {PyNone, PyStr("x")}
UpdArgs == {NoDict} \cup {Dict(d) : d \in DictsOver(UpdValues)}

\* calls of the kinds the application makes: an INSERT with the new row, an
\* UPDATE with both rows, and a row holding a value json cannot serialize
RowBad == [k \in {"a"} |-> PyObj("datetime")]
MainSnapshots == {<<NoDict, Dict(RowNew)>>, <<Dict(RowOld), Dict(RowNew)>>, <<NoDict, Dict(RowBad)>>}
UserInfo == Dict([k \in {"operation"} |-> PyStr("database_update")])
Faults == {"none", "connect", "insert", "commit"}
Actions == {"INSERT", "UPDATE"}

\* filters given to get_audit_logs
TableFilters == {PyNone, PyStr("Invoices")}
ActionFilters == {PyNone, PyStr("UPDATE")}
RecordFilters == {PyNone, PyInt("0"), PyInt("5")}
DateFilters == {<<NoDate, NoDate>>, <<Date(1), NoDate>>, <<NoDate, Date(0)>>}
DefaultLimit == 100

\* the writes read back through the filters: two tables, two actions, two records
QueryCalls == {<<"INSERT", "Invoices", PyInt("0")>>, <<"UPDATE", "Invoices", PyInt("5")>>,
               <<"UPDATE", "Withdraw", PyInt("0")>>, <<"INSERT", "Withdraw", PyInt("5")>>}

\* ----------------------------------------------------------- specifications
NoCall == [op |-> "none", outcome |-> "returned", args |-> <<>>, result |-> <<>>]

InitCallers ==
    /\ pageBefore = NoCall
    /\ writer = [w \in Callers |-> WriterIdle]
    /\ lock = "none"
    /\ stats = StatsIdle
    /\ txn = [b \in Blocks |-> TxnIdle]
    /\ lastWrapped = NotWrapped
    /\ lastRequest = NoRequest
    /\ lastUpdate = [op |-> "none", outcome |-> "returned", args |-> <<>>, rowcount |-> 0, entries |-> <<>>]

InitRest ==
    /\ InitCallers
    /\ business = [t \in Tables |-> IF t = "Withdraw" THEN <<>> ELSE [k \in {1} |-> RowOld]]

\* a machine whose local time is UTC
InitAux ==
    /\ InitRest
    /\ utcOffset = 0

InitStore ==
    /\ audit_log = <<>>
    /\ sqlite_sequence = 0
    /\ now = 0
    /\ lastCall = [op |-> "init_audit_database", outcome |-> "returned", args |-> <<>>, result |-> <<>>]
    /\ assigned = <<>>
    /\ sincePurge = [base |-> 0, succ |-> 0]
    /\ calc = CalcIdle

Init ==
    /\ InitStore
    /\ InitAux

\* the tracker, its readers and the reset tool
LogActionMain ==
    /\ Len(audit_log) < MaxLog
    /\ \E action \in Actions, snap \in MainSnapshots, fault \in Faults :
          log_action(action, "Invoices", PyInt("5"), snap[1], snap[2], UserInfo, fault)

ResetAuditLogs == \E exists \in BOOLEAN, confirm \in BOOLEAN, response \in {"yes", "no"} : reset_audit_logs(exists, confirm, response)

GetAuditLogsMain == \E action \in ActionFilters : get_audit_logs(PyNone, action, PyNone, NoDate, NoDate, DefaultLimit, 0)

GetRecordHistoryMain == get_record_history(PyStr("Invoices"), PyInt("5"))

Next ==
    \/ LogActionMain
    \/ Tick
    \/ init_audit_database
    \/ ResetAuditLogs
    \/ GetAuditLogsMain
    \/ GetRecordHistoryMain
    \/ get_statistics

Spec == Init /\ [][Next]_vars

\* log_action over all pairs of snapshots
LogActionUpd ==
    /\ Len(audit_log) < MaxUpd
    /\ \E action \in Actions, old_values \in UpdArgs, new_values \in UpdArgs :
          log_action(action, "Invoices", PyStr("INV-1"), old_values, new_values, NoDict, "none")

NextUpd == LogActionUpd

SpecUpd == Init /\ [][NextUpd]_vars

\* the diff on every pair of snapshots
InitDiff ==
    /\ audit_log = <<>>
    /\ sqlite_sequence = 0
    /\ now = 0
    /\ lastCall = [op |-> "init_audit_database", outcome |-> "returned", args |-> <<>>, result |-> <<>>]
    /\ assigned = <<>>
    /\ sincePurge = [base |-> 0, succ |-> 0]
    /\ \E old \in DiffDicts, new \in DiffDicts : calc = [old |-> old, new |-> new, changes |-> EmptyDict, done |-> FALSE]
    /\ InitAux

NextDiff == CalcChanges

SpecDiff == InitDiff /\ [][NextDiff]_vars

\* writes followed by filtered reads
LogActionQuery ==
    /\ Len(audit_log) < MaxRows
    /\ \E c \in QueryCalls : log_action(c[1], c[2], c[3], NoDict, NoDict, NoDict, "none")

GetAuditLogsQuery ==
    \E table_name \in TableFilters, action \in ActionFilters, record_id \in RecordFilters, dates \in DateFilters :
          get_audit_logs(table_name, action, record_id, dates[1], dates[2], DefaultLimit, 0)

NextQuery ==
    \/ LogActionQuery
    \/ Tick
    \/ GetAuditLogsQuery

SpecQuery == Init /\ [][NextQuery]_vars

\* writes followed by the pages of a result
PageSizes == {1, 2}

GetAuditLogsPage ==
    \E table_name \in TableFilters, limit \in PageSizes, offset \in {0, 1, 2} :
        /\ offset \in {0, limit}
        /\ get_audit_logs(table_name, PyNone, PyNone, NoDate, NoDate, limit, offset)

NextPage ==
    \/ LogActionQuery
    \/ Tick
    \/ GetAuditLogsPage

SpecPage == Init /\ [][NextPage]_vars

\* the history of records that are inserted and updated
HistoryRecords == {PyInt("0"), PyInt("5")}

LogActionHist ==
    /\ Len(audit_log) < MaxRows
    /\ \E record_id \in HistoryRecords :
          \/ log_action("INSERT", "Invoices", record_id, NoDict, Dict(RowOld), NoDict, "none")
          \/ log_action("UPDATE", "Invoices", record_id, Dict(RowOld), Dict(RowNew), NoDict, "none")

GetRecordHistoryHist == \E record_id \in HistoryRecords : get_record_history(PyStr("Invoices"), record_id)

NextHist ==
    \/ LogActionHist
    \/ Tick
    \/ GetRecordHistoryHist

SpecHist == Init /\ [][NextHist]_vars

\* the age of entries on machines east and west of UTC
UtcOffsets == {-1, 0, 1}

InitRecent ==
    /\ InitStore
    /\ InitRest
    /\ utcOffset \in UtcOffsets

LogActionRecent ==
    /\ Len(audit_log) < MaxRows
    /\ log_action("INSERT", "Invoices", PyInt("5"), NoDict, Dict(RowNew), NoDict, "none")

TickHalfDay == Advance(MaxHalfDays)

NextRecent ==
    \/ LogActionRecent
    \/ TickHalfDay
    \/ get_statistics

SpecRecent == InitRecent /\ [][NextRecent]_vars

\* two callers writing while a third reads the log and the statistics
Pending == Cardinality({w \in Callers : writer[w].pc # "idle"})

LogActionBegin ==
    /\ Len(audit_log) + Pending < MaxRows
    /\ \E w \in Callers, action \in Actions :
          log_action_begin(w, action, "Invoices", PyInt("5"), NoDict, Dict(RowNew), NoDict)

LogActionInsert == \E w \in Callers : log_action_insert(w)

LogActionLocked == \E w \in Callers : log_action_locked(w)

LogActionCommit == \E w \in Callers : log_action_commit(w)

GetAuditLogsConc == get_audit_logs(PyNone, PyNone, PyNone, NoDate, NoDate, DefaultLimit, 0)

NextConc ==
    \/ LogActionBegin
    \/ LogActionInsert
    \/ LogActionLocked
    \/ LogActionCommit
    \/ GetAuditLogsConc
    \/ get_statistics_overall
    \/ get_statistics_actions
    \/ get_statistics_tables
    \/ get_statistics_recent

SpecConc == Init /\ [][NextConc]_vars

\* two audit_transaction blocks around work that logs entries
TxnFaults == {"none", "connect"}

AuditTransactionEnter == \E b \in Blocks, fault \in TxnFaults : audit_transaction_enter(b, fault)

AuditTransactionWork ==
    \E b \in Blocks :
        /\ Len(txn[b].work) < MaxWork
        /\ audit_transaction_work(b, "INSERT", "Invoices", PyStr("TEST001"), NoDict, Dict(RowNew))

AuditTransactionComplete == \E b \in Blocks, fault \in TxnFaults : audit_transaction_complete(b, fault)

AuditTransactionExcept == \E b \in Blocks, fault \in TxnFaults : audit_transaction_except(b, fault)

AuditTransactionRaise == \E b \in Blocks : audit_transaction_raise(b)

NextTxn ==
    \/ AuditTransactionEnter
    \/ AuditTransactionWork
    \/ AuditTransactionComplete
    \/ AuditTransactionExcept
    \/ AuditTransactionRaise
    \/ Tick

SpecTxn == Init /\ [][NextTxn]_vars

\* the statements the request handlers pass to execute_update: by key with
\* table_name and record_id, by key without them, over many rows, and an
\* INSERT whose key the database assigns
Statements ==
    {[verb |-> v, table |-> t, where |-> "key", set |-> "row"] : v \in {"UPDATE", "DELETE"}, t \in {"Invoices", "Withdraw"}}
    \cup {[verb |-> "DELETE", table |-> "Invoices", where |-> "many", set |-> "row"]}
    \cup {[verb |-> "INSERT", table |-> "Withdraw", where |-> "none", set |-> "row"]}

ExecuteUpdate ==
    /\ Len(audit_log) < MaxAudited
    /\ \E stmt \in Statements, k \in RowKeys, named \in BOOLEAN, fault \in TxnFaults :
          /\ stmt.verb = "INSERT" => NewKey(business, stmt.table) \in RowKeys
          /\ execute_update(stmt,
                            IF stmt.where = "key" THEN <<Key(k)>> ELSE <<PyStr("2024-01-01")>>,
                            IF named THEN PyStr(stmt.table) ELSE PyNone,
                            IF named /\ stmt.where = "key" THEN Key(k) ELSE PyNone,
                            fault)

NextApp == ExecuteUpdate

SpecApp == Init /\ [][NextApp]_vars

\* statements on Invoices while the audit store fails, or the statement does
UpdateFaults == {"none", "connect", "execute"}
InvoiceStatements == {stmt \in Statements : stmt.table = "Invoices"}

ExecuteUpdateFailing ==
    /\ Len(audit_log) < MaxAudited
    /\ \E stmt \in InvoiceStatements, k \in RowKeys, named \in BOOLEAN, fault \in UpdateFaults :
          execute_update(stmt,
                         IF stmt.where = "key" THEN <<Key(k)>> ELSE <<PyStr("2024-01-01")>>,
                         IF named THEN PyStr(stmt.table) ELSE PyNone,
                         IF named /\ stmt.where = "key" THEN Key(k) ELSE PyNone,
                         fault)

NextCommit == ExecuteUpdateFailing

SpecCommit == Init /\ [][NextCommit]_vars

\* UPDATE statements by key, made with table_name and record_id, on each of
\* the audited tables; the INSERT puts rows into Withdraw
UpdateStatements == {[verb |-> "UPDATE", table |-> t, where |-> "key", set |-> "row"] : t \in Tables}

ExecuteUpdateOfARow ==
    /\ Len(audit_log) < MaxRows
    /\ \E stmt \in UpdateStatements, k \in RowKeys, fault \in TxnFaults :
          execute_update(stmt, <<Key(k)>>, PyStr(stmt.table), Key(k), fault)

ExecuteInsert ==
    /\ Len(audit_log) < MaxRows
    /\ NewKey(business, "Withdraw") \in RowKeys
    /\ execute_update([verb |-> "INSERT", table |-> "Withdraw", where |-> "none", set |-> "row"],
                      <<PyStr("2024-01-01")>>, PyStr("Withdraw"), PyNone, "none")

NextAudited ==
    \/ ExecuteUpdateOfARow
    \/ ExecuteInsert

SpecAudited == Init /\ [][NextAudited]_vars

\* requests to the invoice bin over two invoices, as the days pass
InitBin ==
    /\ InitStore
    /\ InitCallers
    /\ utcOffset = 0
    /\ business = [t \in Tables |-> IF t = "Invoices" THEN [k \in RowKeys |-> InvoiceRow("active", PyNone)] ELSE <<>>]

Confirmations == {"delete", "DELETE", "", "yes"}
InvoiceSelections == {<<>>, <<Key(1)>>, <<Key(1), Key(2)>>}

MoveInvoiceToBin ==
    /\ Len(audit_log) < MaxLog
    /\ \E k \in RowKeys : move_invoice_to_bin(Key(k))

RestoreInvoiceFromBin ==
    /\ Len(audit_log) < MaxLog
    /\ \E k \in RowKeys : restore_invoice_from_bin(Key(k))

PermanentDeleteInvoice ==
    /\ Len(audit_log) < MaxLog
    /\ \E k \in RowKeys : permanent_delete_invoice(Key(k))

AutoCleanupBin == auto_cleanup_bin

BulkDeleteInvoices ==
    \E invoice_ids \in InvoiceSelections, confirmation \in Confirmations :
        bulk_delete_invoices(invoice_ids, confirmation)

TickDay == Advance(MaxDays)

NextBin ==
    \/ MoveInvoiceToBin
    \/ RestoreInvoiceFromBin
    \/ PermanentDeleteInvoice
    \/ AutoCleanupBin
    \/ BulkDeleteInvoices
    \/ TickDay

SpecBin == InitBin /\ [][NextBin]_vars

\* maps of primitive values written and read back
PrimValues == {PyNone, PyStr("x"), PyInt("1"), PyBool(TRUE)}
PrimArgs == {NoDict, Dict(EmptyDict)} \cup {Dict([k \in {"a"} |-> v]) : v \in PrimValues}

LogActionPrim ==
    /\ Len(audit_log) < MaxUpd
    /\ \E old_values \in PrimArgs, new_values \in PrimArgs, user_info \in PrimArgs :
          log_action("UPDATE", "Invoices", PyInt("5"), old_values, new_values, user_info, "none")

NextPrim == LogActionPrim

SpecPrim == Init /\ [][NextPrim]_vars

\* snapshots given as dicts and as rows of the record store
RowArgs == {NoDict, Dict(RowOld), RowLike(RowOld), RowLike(RowNew)}

LogActionRow ==
    /\ Len(audit_log) < MaxRows
    /\ \E action \in Actions, old_values \in RowArgs, new_values \in RowArgs :
          log_action(action, "Invoices", PyInt("5"), old_values, new_values, NoDict, "none")

NextRow == LogActionRow

SpecRow == Init /\ [][NextRow]_vars

\* functions wrapped by the decorator: they return or raise, and the record
\* id comes from get_record_id, from the first argument or from nowhere
FuncOutcomes == {"returned", "Exception"}
RecordIdSources == {"get_record_id", "get_record_id raises", "args", "none"}

Wrapper ==
    /\ Len(audit_log) < MaxRows
    /\ \E action \in Actions \cup {"DELETE"}, func \in FuncOutcomes, source \in RecordIdSources :
          wrapper(action, "Invoices", func, source)

NextDeco == Wrapper

SpecDeco == Init /\ [][NextDeco]_vars

\* the /logs page over entries of several days
ViewDates == {NoDate, DateText(0), DateText(1)}
ViewPages == {1, 2}

ViewLogs ==
    \E table_name \in TableFilters, date_from \in ViewDates, date_to \in ViewDates, page \in ViewPages :
        view_logs(table_name, PyNone, PyNone, date_from, date_to, page, 1)

NextView ==
    \/ LogActionRecent
    \/ TickHalfDay
    \/ ViewLogs

SpecView == Init /\ [][NextView]_vars

\* ================================================================== claims
\* C1: every call of log_action returns normally; no exception escapes it,
\* also when the store fails on connect, insert or commit or a value cannot
\* be serialized.
LogActionNeverRaises == lastCall.op = "log_action" => lastCall.outcome = "returned"

\* a call whose snapshot could not be serialized has returned without writing
LogActionSwallowedTypeError ==
    /\ lastCall.op = "log_action"
    /\ lastCall.result = <<>>
    /\ ~Serializable(lastCall.args.new_values.d)
    /\ lastCall.outcome = "returned"

\* C2: after N successful log_action calls with no purge in between the store
\* holds exactly N more entries, and each of them has an id greater than the
\* id of every entry before it.
AppendExactlyOnePerCall ==
    /\ Len(audit_log) = sincePurge.base + sincePurge.succ
    /\ \A i \in (sincePurge.base + 1)..Len(audit_log) : \A j \in 1..(i - 1) : audit_log[j].id < audit_log[i].id

TwoCallsSucceeded == sincePurge.succ = 2 /\ Len(audit_log) = sincePurge.base + 2

TrackerOps == {"log_action", "get_audit_logs", "get_record_history", "get_statistics", "init_audit_database"}

ExistingEntriesUntouched ==
    [][lastCall'.op \in TrackerOps =>
          /\ Len(audit_log') >= Len(audit_log)
          /\ \A i \in 1..Len(audit_log) : audit_log'[i] = audit_log[i]
          /\ lastCall'.op # "log_action" => audit_log' = audit_log]_vars

\* init_audit_database was run again on a store that holds entries
ReinitialisedWithEntries == lastCall.op = "init_audit_database" /\ Len(audit_log) = 2

\* C5: _calculate_changes(old, new) has exactly the keys of either snapshot
\* whose values differ, a missing key read as None, each mapped to its old
\* and new value.
FieldDiff(old, new) ==
    [k \in {x \in (DOMAIN old) \cup (DOMAIN new) : DictGet(old, x) # DictGet(new, x)} |->
        [old |-> DictGet(old, k), new |-> DictGet(new, k)]]

DiffHasExactlyTheChangedKeys ==
    calc.done =>
        /\ DOMAIN calc.changes = {k \in Keys : DictGet(calc.old, k) # DictGet(calc.new, k)}
        /\ \A k \in DOMAIN calc.changes : calc.changes[k] = [old |-> DictGet(calc.old, k), new |-> DictGet(calc.new, k)]

\* a key only the new snapshot has is reported with old None
DiffReportsAddedKey ==
    /\ calc.done
    /\ "b" \in DOMAIN calc.new
    /\ "b" \notin DOMAIN calc.old
    /\ "b" \in DOMAIN calc.changes
    /\ calc.changes["b"].old = PyNone

\* C6: _calculate_changes(x, x) is the empty map.
DiffOfEqualSnapshotsIsEmpty == (calc.done /\ calc.old = calc.new) => DOMAIN calc.changes = {}

\* the diff of a two-field snapshot holding a None with itself
DiffOfSnapshotWithItself ==
    /\ calc.done
    /\ calc.old = calc.new
    /\ DOMAIN calc.old = Keys
    /\ calc.old["a"] = PyNone

\* the changes column as a reader decodes it: NULL is no change
DecodeChanges(col) == IF col.null THEN EmptyDict ELSE JsonLoadsChanges(col.text)

\* C7: for every UPDATE call given both an old and a new snapshot (any maps,
\* the empty map included) the changes stored in the written entry equal the
\* field-level diff of the two snapshots.
StoredChangesEqualDiff ==
    (/\ lastCall.op = "log_action"
     /\ lastCall.args.action = "UPDATE"
     /\ ~lastCall.args.old_values.isNone
     /\ ~lastCall.args.new_values.isNone
     /\ Len(lastCall.result) = 1)
    => DecodeChanges(lastCall.result[1].changes) = FieldDiff(lastCall.args.old_values.d, lastCall.args.new_values.d)

\* missing keys read as null in a stored snapshot
JsonNull == <<"null", "null">>
JsonGet(j, k) == IF k \in DOMAIN j THEN j[k] ELSE JsonNull
SameFields(j1, j2) == \A k \in (DOMAIN j1) \cup (DOMAIN j2) : JsonGet(j1, k) = JsonGet(j2, k)

BothSnapshotsStored(row) == row.action = "UPDATE" /\ ~row.old_values.null /\ ~row.new_values.null

\* C8 as stated: an UPDATE entry with both snapshots present has a non-empty
\* changes map unless its old and new snapshots are identical.
ChangesEmptyOnlyIfIdentical ==
    \A i \in 1..Len(audit_log) :
        (BothSnapshotsStored(audit_log[i]) /\ audit_log[i].old_values.text # audit_log[i].new_values.text)
        => ~audit_log[i].changes.null /\ DOMAIN audit_log[i].changes.text # {}

\* C8 (amended): an UPDATE entry with both snapshots present has a non-empty
\* changes map unless its snapshots agree on every key, a key missing from a
\* snapshot being read as null.
ChangesEmptyOnlyIfSameFields ==
    \A i \in 1..Len(audit_log) :
        (BothSnapshotsStored(audit_log[i]) /\ ~SameFields(audit_log[i].old_values.text, audit_log[i].new_values.text))
        => ~audit_log[i].changes.null /\ DOMAIN audit_log[i].changes.text # {}

\* an UPDATE entry whose snapshots differ in a value and in their keys
UpdateEntryWithDifferentSnapshots ==
    \E i \in 1..Len(audit_log) :
        /\ BothSnapshotsStored(audit_log[i])
        /\ DOMAIN audit_log[i].old_values.text # DOMAIN audit_log[i].new_values.text
        /\ ~SameFields(audit_log[i].old_values.text, audit_log[i].new_values.text)
        /\ ~audit_log[i].changes.null

\* C9: with a limit no smaller than the store, get_audit_logs returns an
\* entry if and only if it satisfies every filter the caller passed as a
\* value other than None.
Supplied(v) == v[1] # "NoneType"

SatisfiesSupplied(row, a) ==
    /\ Supplied(a.table_name) => row.table_name = a.table_name[2]
    /\ Supplied(a.action) => row.action = a.action[2]
    /\ Supplied(a.record_id) => row.record_id = Str(a.record_id)
    /\ ~a.date_from.isNone => row.timestamp >= a.date_from.t
    /\ ~a.date_to.isNone => row.timestamp <= a.date_to.t

ReturnsExactlyTheMatches ==
    (lastCall.op = "get_audit_logs" /\ lastCall.args.limit >= Len(audit_log))
    => {lastCall.result[i].id : i \in 1..Len(lastCall.result)}
         = {audit_log[i].id : i \in {j \in 1..Len(audit_log) : SatisfiesSupplied(audit_log[j], lastCall.args)}}

\* C10: get_audit_logs returns entries by timestamp descending, and entries
\* with equal timestamp by id descending.
NewestFirstTiesByIdDesc ==
    lastCall.op = "get_audit_logs" =>
        \A i, j \in 1..Len(lastCall.result) :
            i < j => \/ lastCall.result[i].timestamp > lastCall.result[j].timestamp
                     \/ /\ lastCall.result[i].timestamp = lastCall.result[j].timestamp
                        /\ lastCall.result[i].id > lastCall.result[j].id

\* C11: with no write in between, get_audit_logs(limit=L, offset=0) and
\* get_audit_logs(limit=L, offset=L) with the same filters return disjoint
\* slices whose concatenation is the first 2L entries of the full result.
IsSecondPage ==
    /\ lastCall.op = "get_audit_logs"
    /\ lastCall.args.offset > 0
    /\ lastCall.args.offset = lastCall.args.limit
    /\ pageBefore.op = "get_audit_logs"
    /\ pageBefore.args = [lastCall.args EXCEPT !.offset = 0]

PagesAreDisjointAndContiguous ==
    IsSecondPage =>
        LET a == lastCall.args
            both == pageBefore.result \o lastCall.result
        IN /\ \A i \in 1..Len(pageBefore.result), j \in 1..Len(lastCall.result) :
                  pageBefore.result[i].id # lastCall.result[j].id
           /\ \E full \in QueryResults(audit_log, a.table_name, a.action, a.record_id, a.date_from, a.date_to,
                                       Len(audit_log) + 1, 0) :
                  both = SubSeq(full, 1, Min(Len(full), 2 * a.limit))

\* two pages of one entry each, the two entries having the same timestamp
TwoPagesOverATie ==
    /\ IsSecondPage
    /\ Len(pageBefore.result) = 1
    /\ Len(lastCall.result) = 1
    /\ pageBefore.result[1].timestamp = lastCall.result[1].timestamp

\* C12: get_record_history(t, r) returns exactly the entries whose table_name
\* is t and whose record_id is the string form of r, for every r, numeric ids
\* included.
HistoryIsExactlyTheRecord ==
    lastCall.op = "get_record_history" =>
        {lastCall.result[i].id : i \in 1..Len(lastCall.result)}
          = {audit_log[i].id : i \in {j \in 1..Len(audit_log) :
                                         /\ audit_log[j].table_name = lastCall.args.table_name[2]
                                         /\ audit_log[j].record_id = Str(lastCall.args.record_id)}}

\* C13: after an INSERT and a later UPDATE were logged for a record, its
\* history returns both entries, the UPDATE entry before the INSERT entry,
\* and the UPDATE entry's changes are the fields that differ between its
\* snapshots.
PositionOf(rows, id) == CHOOSE n \in 1..Len(rows) : rows[n].id = id

HistoryShowsUpdateThenInsert ==
    lastCall.op = "get_record_history" =>
        \A i, j \in 1..Len(audit_log) :
            (/\ i < j
             /\ audit_log[i].action = "INSERT"
             /\ audit_log[j].action = "UPDATE"
             /\ \A k \in {i, j} : /\ audit_log[k].table_name = lastCall.args.table_name[2]
                                  /\ audit_log[k].record_id = Str(lastCall.args.record_id))
            => /\ \A k \in {i, j} : \E n \in 1..Len(lastCall.result) : lastCall.result[n] = audit_log[k]
               /\ PositionOf(lastCall.result, audit_log[j].id) < PositionOf(lastCall.result, audit_log[i].id)
               /\ DecodeChanges(audit_log[j].changes)
                    = FieldDiff(JsonLoadsDict(audit_log[j].old_values.text), JsonLoadsDict(audit_log[j].new_values.text))

\* C14: for a static store, overall.total_actions of get_statistics equals
\* the number of entries get_audit_logs returns with no filters and a limit
\* larger than the store, after any sequence of log_action calls and purges.
TotalActionsIsTheUnfilteredCount ==
    lastCall.op = "get_statistics" =>
        \A rows \in QueryResults(audit_log, PyNone, PyNone, PyNone, NoDate, NoDate, Len(audit_log) + 1, 0) :
            lastCall.result.overall.total_actions = Len(rows)

\* statistics of a store of two entries on which a purge was attempted
StatisticsOfTwoEntriesAfterPurge ==
    /\ lastCall.op = "get_statistics"
    /\ lastCall.result.overall.total_actions = 2
    /\ sincePurge.base > 0

\* C16: recent_activity.count of get_statistics is the number of entries whose
\* log_action call happened within the 24 hours before the query, for every
\* offset between local time and the store's clock.
LoggedInLast24Hours(query_time) == {i \in 1..Len(audit_log) : audit_log[i].timestamp >= query_time - Day}

RecentActivityIsTheLast24Hours ==
    lastCall.op = "get_statistics" =>
        lastCall.result.recent_activity.count = Cardinality(LoggedInLast24Hours(lastCall.args.now))

\* C15: in every result get_statistics returns, also when log_action calls
\* of other callers run at the same time, the per-action counts sum to
\* overall.total_actions and the per-table counts sum to it.
RECURSIVE SumOver(_, _)
SumOver(f, S) == IF S = {} THEN 0 ELSE LET k == CHOOSE x \in S : TRUE IN f[k] + SumOver(f, S \ {k})

CountsSumToTotal(result) ==
    /\ SumOver(result.actions, DOMAIN result.actions) = result.overall.total_actions
    /\ SumOver(result.tables, DOMAIN result.tables) = result.overall.total_actions

StatisticsCountsSumToTotal == lastCall.op = "get_statistics" => CountsSumToTotal(lastCall.result)

\* C15 as amended: the counts sum to the total in every result of a call that
\* no commit of a log_action call ran into
StatisticsCountsSumToTotalWithoutCommit ==
    (lastCall.op = "get_statistics" /\ stats.last = 0) => CountsSumToTotal(lastCall.result)

\* statistics of a store of one entry returned while a log_action call of
\* another caller holds a pending row
StatisticsBesideAPendingWrite ==
    /\ lastCall.op = "get_statistics"
    /\ stats.last = 0
    /\ lastCall.result.overall.total_actions = 1
    /\ \E w \in Callers : writer[w].pc = "inserted"

\* C17: for every interleaving of log_action calls of concurrent callers the
\* number of entries equals the number of calls whose write succeeded, every
\* written entry is in the store, whole and once, and a reader only sees
\* entries that were written whole.
ConcurrentWritesAreAtomic ==
    LET WrittenRows == UNION {{writer[w].wrote[k] : k \in 1..Len(writer[w].wrote)} : w \in Callers}
    IN /\ Len(audit_log) = SumOver([w \in Callers |-> Len(writer[w].wrote)], Callers)
       /\ \A r \in WrittenRows : Cardinality({i \in 1..Len(audit_log) : audit_log[i] = r}) = 1
       /\ \A i, j \in 1..Len(audit_log) : i # j => audit_log[i].id # audit_log[j].id
       /\ lastCall.op = "get_audit_logs" => \A i \in 1..Len(lastCall.result) : lastCall.result[i] \in WrittenRows

\* both callers wrote an entry, one of them after a call of it had found the
\* store locked by the other
BothWroteAfterALockedCall ==
    /\ \A w \in Callers : Len(writer[w].wrote) = 1
    /\ \E w \in Callers : writer[w].timedOut
    /\ lastCall.op = "get_audit_logs"
    /\ Len(lastCall.result) = 2

\* C18: for every audit_transaction block whose audit writes all succeed,
\* the entries carrying its transaction id are exactly one TRANSACTION_START
\* written before every entry of the wrapped work and exactly one closing
\* entry written after all of them, TRANSACTION_COMPLETE if and only if the
\* block exits normally and TRANSACTION_ERROR if and only if it exits with an
\* exception.
Carrying(b) == {i \in 1..Len(audit_log) : audit_log[i].record_id = Str(txn[b].id)}
WorkOf(b) == {i \in 1..Len(audit_log) : \E k \in 1..Len(txn[b].work) : audit_log[i].id = txn[b].work[k]}
StartsOf(b) == {i \in Carrying(b) : audit_log[i].action = "TRANSACTION_START"}
ClosingsOf(b) == {i \in Carrying(b) : audit_log[i].action \in {"TRANSACTION_COMPLETE", "TRANSACTION_ERROR"}}

TransactionIsBracketed ==
    \A b \in Blocks :
        (txn[b].pc = "exited" /\ ~txn[b].failed) =>
            /\ Carrying(b) = StartsOf(b) \cup ClosingsOf(b)
            /\ Cardinality(StartsOf(b)) = 1
            /\ Cardinality(ClosingsOf(b)) = 1
            /\ \A i \in StartsOf(b), k \in WorkOf(b) : i < k
            /\ \A c \in ClosingsOf(b), k \in WorkOf(b) : k < c
            /\ \A c \in ClosingsOf(b) :
                  /\ audit_log[c].action = "TRANSACTION_COMPLETE" <=> txn[b].exit = "normal"
                  /\ audit_log[c].action = "TRANSACTION_ERROR" <=> txn[b].exit = "Exception"

\* C19: audit_transaction is observational only: an exception raised by the
\* wrapped work reaches the caller of the block, after the wrapper's
\* TRANSACTION_ERROR log_action call; the entries the work logged before it
\* stay in the store; the wrapper raises nothing the work did not raise.
TransactionIsObservationalOnly ==
    \A b \in Blocks :
        /\ txn[b].pc = "exited" => txn[b].raised = (IF txn[b].exit = "normal" THEN "none" ELSE txn[b].exit)
        /\ txn[b].raised # "none" => txn[b].raised = txn[b].exit
        /\ txn[b].raised = "Exception" =>
              /\ txn[b].calls = <<"TRANSACTION_START", "TRANSACTION_ERROR">>
              /\ ~txn[b].failed => \E c \in ClosingsOf(b) : audit_log[c].action = "TRANSACTION_ERROR"
        /\ \A k \in 1..Len(txn[b].work) : \E i \in 1..Len(audit_log) : audit_log[i].id = txn[b].work[k]

\* the work logged an entry and raised; the exception reached the caller
\* with the work's entry and the TRANSACTION_ERROR entry in the store
ExceptionReachedCallerAfterWork ==
    \E b \in Blocks :
        /\ txn[b].raised = "Exception"
        /\ ~txn[b].failed
        /\ WorkOf(b) # {}
        /\ \E c \in ClosingsOf(b) : \A k \in WorkOf(b) : k < c

\* C20: every call of execute_update that commits an INSERT, UPDATE or
\* DELETE statement, with or without table_name and record_id, while the
\* audit store is available, results in exactly one audit entry whose action
\* is the statement's verb.
EveryCommittedStatementIsAudited ==
    (lastUpdate.op = "execute_update" /\ lastUpdate.args.fault = "none") =>
        /\ Len(lastUpdate.entries) = 1
        /\ lastUpdate.entries[1].action = lastUpdate.args.stmt.verb

\* C24: after any call of reset_audit_logs the store holds no entry or every
\* entry it held before; it holds none and the call returns True when the
\* purge was confirmed (or confirm=False), and it holds all of them with a
\* False return when the user declined or the database file is missing.
PurgeConfirmed(args) == args.exists /\ (~args.confirm \/ args.response = "yes")

PurgeIsAllOrNothing ==
    lastCall.op = "reset_audit_logs" =>
        /\ PurgeConfirmed(lastCall.args) => (audit_log = <<>> /\ lastCall.result = <<TRUE>>)
        /\ (~PurgeConfirmed(lastCall.args) /\ audit_log # <<>>) => lastCall.result = <<FALSE>>

\* C28: two audit_transaction blocks, started in any order, also within the
\* same clock tick, get different transaction ids.
TransactionIdsDiffer ==
    \A b1, b2 \in Blocks :
        (b1 # b2 /\ txn[b1].pc # "idle" /\ txn[b2].pc # "idle") => txn[b1].id # txn[b2].id

\* C29: in every reachable state of the store, also when audit writes fail
\* and are swallowed, every TRANSACTION_COMPLETE or TRANSACTION_ERROR entry
\* is preceded by a TRANSACTION_START entry with the same record_id.
ClosingEntryFollowsItsStart ==
    \A i \in 1..Len(audit_log) :
        audit_log[i].action \in {"TRANSACTION_COMPLETE", "TRANSACTION_ERROR"} =>
            \E j \in 1..(i - 1) : /\ audit_log[j].action = "TRANSACTION_START"
                                  /\ audit_log[j].record_id = audit_log[i].record_id

\* C22: for every map of primitive values passed to log_action as
\* old_values, new_values or user_info, decoding the stored column of the
\* written entry gives back a map equal to the one supplied.
SnapshotColumns == {"old_values", "new_values", "user_info"}

StoredMapsRoundTrip ==
    (lastCall.op = "log_action" /\ lastCall.result # <<>>) =>
        \A f \in SnapshotColumns :
            ~lastCall.args[f].isNone => DecodeColumn(lastCall.result[1][f]) = lastCall.args[f]

\* C23: log_action accepts a snapshot given as a row-like object the same
\* as one given as a map: with a non-empty row-like old_values or new_values
\* it writes exactly one entry holding that snapshot's fields.
RowLikeSnapshots(args) == {f \in {"old_values", "new_values"} : args[f].row /\ TruthyDict(args[f])}

RowLikeSnapshotIsWritten ==
    (lastCall.op = "log_action" /\ RowLikeSnapshots(lastCall.args) # {}) =>
        /\ Len(lastCall.result) = 1
        /\ \A f \in RowLikeSnapshots(lastCall.args) :
              DecodeColumn(lastCall.result[1][f]).d = lastCall.args[f].d

\* C26: for a function wrapped by the audit_log decorator: if it returns
\* normally the wrapper returns its result and exactly one entry with the
\* given action is logged; if it raises, exactly one '<action>_ERROR' entry
\* is logged and the same exception propagates; an '<action>_ERROR' entry is
\* never logged for a call that returned normally.
WrapperLogsWhatHappened ==
    lastWrapped.op = "wrapper" =>
        LET a == lastWrapped.args IN
        /\ Len(lastWrapped.entries) = 1
        /\ a.func = "returned" => /\ lastWrapped.returned
                                  /\ lastWrapped.raised = "none"
                                  /\ lastWrapped.entries[1].action = a.action
        /\ a.func = "Exception" => /\ lastWrapped.raised = "func"
                                   /\ lastWrapped.entries[1].action = a.action \o "_ERROR"

\* C27: on the /logs page, for every combination of filters,
\* pagination.total_count is the number of entries get_audit_logs returns
\* for the same filters over all pages, and has_next is true exactly when a
\* later page is non-empty.
AllPages(a) ==
    QueryResults(audit_log, a.table_name, a.action, a.record_id,
                 AsTimestampBound(a.date_from, FALSE), AsTimestampBound(a.date_to, TRUE), Len(audit_log) + 1, 0)

TotalCountIsWhatThePagesShow ==
    lastCall.op = "view_logs" =>
        \A all \in AllPages(lastCall.args) :
            /\ lastCall.result.pagination.total_count = Len(all)
            /\ lastCall.result.pagination.has_next <=> Len(all) > lastCall.args.page * lastCall.args.per_page

\* C21: every execute_update UPDATE call made with table_name and record_id
\* on a row that exists, of Invoices, Withdraw or DebtRegister, writes an
\* audit entry whose old_values is the full row before the statement and
\* whose new_values is the full row after it, so that its changes are exactly
\* the fields the statement changed.
AuditedUpdateOfARow(a, biz) ==
    /\ a.stmt.verb = "UPDATE"
    /\ a.stmt.where = "key"
    /\ Truthy(a.table_name)
    /\ Truthy(a.record_id)
    /\ a.fault = "none"
    /\ KeyOf(a.record_id) \in DOMAIN biz[a.stmt.table]

EntryHoldsBothRows(entry, before, after) ==
    /\ entry.old_values = TextCol(JsonDumpsDict(before))
    /\ entry.new_values = TextCol(JsonDumpsDict(after))
    /\ entry.changes = (IF before = after THEN NullCol
                        ELSE TextCol(JsonDumpsChanges(calculate_changes(before, after))))

UpdateEntryHoldsBothRowsStep ==
    (lastUpdate'.op = "execute_update" /\ AuditedUpdateOfARow(lastUpdate'.args, business)) =>
        LET a == lastUpdate'.args
            k == KeyOf(a.record_id)
        IN /\ Len(lastUpdate'.entries) = 1
           /\ EntryHoldsBothRows(lastUpdate'.entries[1], business[a.stmt.table][k], business'[a.stmt.table][k])

UpdateEntryHoldsBothRows == [][UpdateEntryHoldsBothRowsStep]_vars

\* C25: in execute_update the audit entry is written only after the business
\* statement has been committed: when the statement raises, no audit entry is
\* written and the exception reaches the caller; when audit logging fails
\* afterwards, the committed change stays and the call returns the
\* statement's row count.
AuditFollowsTheCommitStep ==
    lastUpdate'.op = "execute_update" =>
        LET a == lastUpdate'.args
        IN /\ a.fault = "execute" =>
                 /\ lastUpdate'.outcome = "raised"
                 /\ audit_log' = audit_log
                 /\ business' = business
           /\ a.fault = "connect" =>
                 /\ lastUpdate'.outcome = "returned"
                 /\ lastUpdate'.rowcount = Rowcount(business, a.stmt, a.params)
                 /\ business' = Execute(business, a.stmt, a.params)
                 /\ audit_log' = audit_log
           /\ audit_log' # audit_log =>
                 /\ lastUpdate'.outcome = "returned"
                 /\ business' = Execute(business, a.stmt, a.params)

AuditFollowsTheCommit == [][AuditFollowsTheCommitStep]_vars

ChangeStaysAfterAuditFailure ==
    /\ lastUpdate.op = "execute_update"
    /\ lastUpdate.args.fault = "connect"
    /\ lastUpdate.args.stmt = [verb |-> "UPDATE", table |-> "Invoices", where |-> "key", set |-> "row"]
    /\ Truthy(lastUpdate.args.record_id)
    /\ lastUpdate.rowcount = 1
    /\ business["Invoices"][1] = RowNew
    /\ audit_log = <<>>

\* C30: over any sequence of move-to-bin, restore, permanent-delete,
\* bulk-delete and auto-cleanup requests, an invoice row is removed from
\* Invoices only while its status is 'binned' (an active invoice is never
\* deleted), a restored invoice is active with no deletion timestamp, a
\* bulk-delete whose confirmation text is not 'delete' (in either case)
\* removes nothing, and auto-cleanup removes only binned invoices whose
\* deleted_at is more than 30 days old.
Removed == DOMAIN business["Invoices"] \ DOMAIN business'["Invoices"]

OnlyBinnedInvoicesAreRemovedStep ==
    LET invoices == business["Invoices"]
        after == business'["Invoices"]
        r == lastRequest'
    IN /\ DOMAIN after \subseteq DOMAIN invoices
       /\ \A k \in Removed : invoices[k] # InvoiceRow("active", PyNone) /\ invoices[k]["status"] = PyStr("binned")
       /\ (r.op = "restore_invoice_from_bin" /\ KeyOf(r.args.invoice_id) \in DOMAIN after) =>
              after[KeyOf(r.args.invoice_id)] = InvoiceRow("active", PyNone)
       /\ (r.op = "bulk_delete_invoices" /\ r.args.confirmation \notin {"delete", "DELETE"}) => Removed = {}
       /\ r.op = "auto_cleanup_bin" =>
              \A k \in Removed : /\ invoices[k]["deleted_at"] # PyNone
                                 /\ Strptime(invoices[k]["deleted_at"]) + RetentionDays < now

OnlyBinnedInvoicesAreRemoved == [][OnlyBinnedInvoicesAreRemovedStep]_vars

AutoCleanupRemovedAnOldBinnedInvoice ==
    /\ lastRequest.op = "auto_cleanup_bin"
    /\ lastUpdate.op = "execute_update"
    /\ lastUpdate.args.stmt.where = "binned before"
    /\ lastUpdate.rowcount = 1
    /\ DOMAIN business["Invoices"] = {2}
    /\ business["Invoices"][2] = InvoiceRow("binned", Strftime(now - RetentionDays))
    /\ \E i \in 1..Len(audit_log) : audit_log[i].action = "UPDATE" /\ audit_log[i].record_id = "1"

====
